---------------------------- MODULE Spec2Model ----------------------------
(***************************************************************************)
(* A model of the constraint/witness substrate of zkevm-circuits:          *)
(*   - BaseConstraintBuilder (evm_circuit/util/constraint_builder.rs)      *)
(*   - rlc::value / from_bytes::value and CachedRegion (evm_circuit/util.rs)*)
(*   - ToScalar for U256 (eth-types/src/lib.rs)                            *)
(* Each component has its own specification (SpecBuilder, SpecCodec,       *)
(* SpecRegion) over the shared variables.                                  *)
(***************************************************************************)
EXTENDS Integers, Sequences, FiniteSets, TLC

VARIABLES
    debug_assertions,  \* build profile: are debug_assert! checks compiled in
    max_degree,        \* BaseConstraintBuilder::max_degree
    constraints,       \* BaseConstraintBuilder::constraints, <<name, expr>> pairs
    condition,         \* BaseConstraintBuilder::condition, None or <<"Some", expr>>
    frames,            \* condition() calls whose body is running (innermost last)
    panicked,          \* a panic has unwound the caller
    ret,               \* the last call and what it returned
    advice,            \* CachedRegion::advice, the window cache [column][row]
    grid,              \* the cells of the underlying Region, [column][row]
    assigned           \* history: per window cell, the value of the last
                       \* successful assign_advice that produced one

regionVars == <<advice, grid, assigned>>

vars == <<debug_assertions, max_degree, constraints, condition, frames,
          panicked, ret, advice, grid, assigned>>

----------------------------------------------------------------------------
(* Bounds of the model *)

\* longest constraint list explored
MaxConstraints == 2
\* deepest nesting of condition() calls explored
MaxDepth == 2
\* rows of the grid below the window (padding rows)
PadRows == 1
\* longest byte sequence given to rlc::value
MaxLen == 3
\* bytes of a Word and of a field element's canonical form (32 in the
\* program), scaled down together with the field
WordBytes == 2

----------------------------------------------------------------------------
(* halo2 Expression<F>, as a syntax tree                                    *)

None == <<"None">>
Some(v) == <<"Some", v>>

Constant(n) == <<"Constant", n>>
Advice(i) == <<"Advice", i>>
Fixed(i) == <<"Fixed", i>>
Negated(a) == <<"Negated", a>>
Sum(a, b) == <<"Sum", a, b>>
Product(a, b) == <<"Product", a, b>>
\* impl Mul<F> for Expression: an expression times a field element
Scaled(a, f) == <<"Scaled", a, f>>
\* impl Sub for Expression: a - b is Sum(a, Negated(b))
Sub(a, b) == Sum(a, Negated(b))

Max(a, b) == IF a >= b THEN a ELSE b

RECURSIVE Degree(_)
\* Expression::degree(), called at constraint_builder.rs:73 and :120
Degree(e) ==
    CASE e[1] = "Constant" -> 0
      [] e[1] = "Advice" -> 1
      [] e[1] = "Fixed" -> 1
      [] e[1] = "Negated" -> Degree(e[2])
      [] e[1] = "Sum" -> Max(Degree(e[2]), Degree(e[3]))
      [] e[1] = "Product" -> Degree(e[2]) + Degree(e[3])
      [] e[1] = "Scaled" -> Degree(e[2])

\* 1.expr()
One == Constant(1)


----------------------------------------------------------------------------
(* Inputs of the builder's operations                                       *)

x == Advice(1)
y == Advice(2)
q == Fixed(1)
sel == Fixed(2)

\* expressions callers constrain: degrees 1 and 3
Operands == {x, Product(x, Product(y, y))}
\* activation conditions: degrees 1 and 2
Conditions == {q, Product(q, x)}
\* gate selectors: degrees 1, 2 and 3
Selectors == {sel, Product(sel, q), Product(sel, Product(q, q))}
\* configured maximum degrees (0 disables the check)
MaxDegrees == {0, 4}
\* candidate sets of require_in_set, as vectors
InSets == {<<>>, <<One, Constant(2)>>, <<y, Constant(2)>>}
\* Word<Expression<F>> values: a (lo, hi) pair of limb expressions
WordOf(lo, hi) == [lo |-> lo, hi |-> hi]
WordExprs == {WordOf(x, y), WordOf(x, Product(x, Product(y, y)))}

----------------------------------------------------------------------------
(* BaseConstraintBuilder                                                    *)

\* the part of the builder a push changes. For the running call, accepted
\* collects the <<name, expr>> pairs, as the caller passed them, that it has
\* stored, and rejected is the scaled expression validate_degree panicked on
Builder == [constraints |-> constraints, panicked |-> panicked,
            accepted |-> <<>>, rejected |-> None]

\* validate_degree with the comparison off by one (degree < max_degree)
validate_degree_strict(degree) ==
    (debug_assertions /\ max_degree > 0) => degree < max_degree

\* validate_degree that lets one degree too many through
validate_degree_lenient(degree) ==
    (debug_assertions /\ max_degree > 0) => degree <= max_degree + 1

\* validate_degree: TRUE when it returns, FALSE when its debug_assert! panics
validate_degree(degree) ==
    (debug_assertions /\ max_degree > 0) => degree <= max_degree

\* add_constraint that forgets the active condition
add_constraint_unscaled(b, name, constraint) ==
    IF b.panicked THEN b
    ELSE IF ~validate_degree(Degree(constraint))
         THEN [b EXCEPT !.panicked = TRUE, !.rejected = Some(constraint)]
    ELSE [b EXCEPT !.constraints = Append(@, <<name, constraint>>),
                   !.accepted = Append(@, <<name, constraint>>)]

\* add_constraint on builder b; code after a panic does not run
add_constraint(b, name, constraint) ==
    LET c == IF condition = None THEN constraint
             ELSE Product(condition[2], constraint)
    IN  IF b.panicked THEN b
        ELSE IF ~validate_degree(Degree(c))
             THEN [b EXCEPT !.panicked = TRUE, !.rejected = Some(c)]
        ELSE [b EXCEPT !.constraints = Append(@, <<name, c>>),
                       !.accepted = Append(@, <<name, constraint>>)]

require_zero(b, name, constraint) == add_constraint(b, name, constraint)

require_equal(b, name, lhs, rhs) == add_constraint(b, name, Sub(lhs, rhs))

require_boolean(b, name, value) ==
    add_constraint(b, name, Product(value, Sub(One, value)))

require_true(b, name, value) == require_equal(b, name, value, One)

\* Word::to_lo_hi
to_lo_hi(w) == <<w.lo, w.hi>>
\* Word::zero()
WordZero == WordOf(Constant(0), Constant(0))

\* require_equal_word that pushes one constraint over both limbs
require_equal_word_combined(b, name, lhs, rhs) ==
    LET l == to_lo_hi(lhs)
        r == to_lo_hi(rhs)
    IN  add_constraint(b, name, Sum(Sub(l[1], r[1]), Sub(l[2], r[2])))

require_equal_word(b, name, lhs, rhs) ==
    LET l == to_lo_hi(lhs)
        r == to_lo_hi(rhs)
    IN  add_constraint(add_constraint(b, name, Sub(l[1], r[1])),
                       name, Sub(l[2], r[2]))

require_zero_word(b, name, word) == require_equal_word(b, name, word, WordZero)

RECURSIVE InSetFold(_, _, _)
\* set.iter().fold(acc, |acc, item| acc * (value - item))
InSetFold(acc, value, set) ==
    IF set = <<>> THEN acc
    ELSE InSetFold(Product(acc, Sub(value, Head(set))), value, Tail(set))

\* require_in_set that takes the empty set as nothing to require
require_in_set_vacuous(b, name, value, set) ==
    IF set = <<>> THEN add_constraint(b, name, Constant(0))
    ELSE add_constraint(b, name, InSetFold(One, value, set))

require_in_set(b, name, value, set) ==
    add_constraint(b, name, InSetFold(One, value, set))

RECURSIVE add_constraints(_, _)
add_constraints(b, cs) ==
    IF cs = <<>> THEN b
    ELSE add_constraints(add_constraint(b, Head(cs)[1], Head(cs)[2]), Tail(cs))

\* the builder after a constraint-pushing call that left it as b
Pushed(op, arg, b) ==
    /\ ~panicked
    /\ Len(constraints) < MaxConstraints
    /\ Len(b.constraints) <= MaxConstraints
    /\ constraints' = b.constraints
    /\ panicked' = b.panicked
    /\ ret' = [op |-> op, arg |-> arg, ok |-> ~b.panicked, val |-> b.accepted,
               rejected |-> b.rejected]
    /\ UNCHANGED <<debug_assertions, max_degree, condition, frames>>
    /\ UNCHANGED regionVars

RequireZero ==
    \E e \in Operands :
        Pushed("require_zero", <<"zero", e>>, require_zero(Builder, "zero", e))

RequireEqual ==
    \E e \in {x} :
        Pushed("require_equal", <<"eq", e, y>>, require_equal(Builder, "eq", e, y))

RequireBoolean ==
    \E e \in {x} :
        Pushed("require_boolean", <<"flag", e>>, require_boolean(Builder, "flag", e))

RequireTrue ==
    \E e \in {x} :
        Pushed("require_true", <<"true", e>>, require_true(Builder, "true", e))

RequireInSet ==
    \E s \in InSets :
        Pushed("require_in_set", <<"set", x, s>>, require_in_set(Builder, "set", x, s))

RequireEqualWord ==
    \E a \in WordExprs :
        Pushed("require_equal_word", <<"word", a, WordOf(y, y)>>,
               require_equal_word(Builder, "word", a, WordOf(y, y)))

RequireZeroWord ==
    \E a \in {WordOf(x, Product(x, y))} :
        Pushed("require_zero_word", <<"zword", a>>,
               require_zero_word(Builder, "zword", a))

AddConstraints ==
    \E cs \in {<<<<"a", x>>, <<"b", Product(x, Product(y, y))>>>>} :
        Pushed("add_constraints", <<cs>>, add_constraints(Builder, cs))

\* condition() without its assertion
nesting_unchecked == TRUE

\* condition()'s debug_assert!(self.condition.is_none()): TRUE when it passes
no_condition_active == debug_assertions => condition = None

\* condition(cond, body) up to the call of body
ConditionCall ==
    \E cond \in Conditions :
        /\ ~panicked
        /\ Len(frames) < MaxDepth
        /\ IF ~no_condition_active
           THEN /\ panicked' = TRUE
                /\ UNCHANGED <<condition, frames>>
           ELSE /\ condition' = Some(cond)
                /\ frames' = Append(frames, cond)
                /\ UNCHANGED panicked
        /\ ret' = [op |-> "condition", arg |-> <<cond>>, ok |-> ~panicked',
                   val |-> <<>>, rejected |-> None]
        /\ UNCHANGED <<debug_assertions, max_degree, constraints>>
        /\ UNCHANGED regionVars

\* condition(cond, body) from the return of body
ConditionReturn ==
    /\ ~panicked
    /\ frames # <<>>
    /\ condition' = None
    /\ frames' = SubSeq(frames, 1, Len(frames) - 1)
    /\ ret' = [op |-> "condition_return", arg |-> <<frames[Len(frames)]>>,
               ok |-> TRUE, val |-> <<>>, rejected |-> None]
    /\ UNCHANGED <<debug_assertions, max_degree, constraints, panicked>>
    /\ UNCHANGED regionVars

RECURSIVE KeepWithin(_)
KeepWithin(g) ==
    IF g = <<>> THEN <<>>
    ELSE IF max_degree > 0 /\ Degree(Head(g)[2]) > max_degree
         THEN KeepWithin(Tail(g))
         ELSE <<Head(g)>> \o KeepWithin(Tail(g))

\* gate whose filter drops the constraints over the degree bound
gate_filtering(selector) ==
    KeepWithin([i \in 1..Len(constraints) |->
        <<constraints[i][1], Product(selector, constraints[i][2])>>])

\* gate's result: the mapped constraints, in order
gate(selector) ==
    [i \in 1..Len(constraints) |->
        <<constraints[i][1], Product(selector, constraints[i][2])>>]

\* gate's filter closure validates each mapped constraint and keeps it
Gate ==
    \E selector \in Selectors :
        LET g == gate(selector)
            fine == \A i \in 1..Len(g) : validate_degree(Degree(g[i][2]))
        IN  /\ ~panicked
            /\ panicked' = ~fine
            /\ ret' = [op |-> "gate", arg |-> <<selector>>, ok |-> fine,
                       val |-> IF fine THEN g ELSE <<>>, rejected |-> None]
            /\ UNCHANGED <<debug_assertions, max_degree, constraints, condition,
                           frames>>
            /\ UNCHANGED regionVars

\* CachedRegion: the window starts at column width_start, row height_start
width_start == 1
height_start == 1
\* the window's extent: advice.len() columns of advice[0].len() rows
Width == 2
Height == 2
\* the rows of the underlying grid: those above the window, the window's,
\* and the padding rows below it
GridRows == height_start + Height + PadRows
\* advice_columns, by index
Columns == width_start..(width_start + Width - 1)
\* field elements assigned to cells
Values == {0, 1}

\* a fresh window over an unassigned grid: every cell is F::ZERO
FreshRegion ==
    /\ advice = [c \in 0..(Width - 1) |-> [r \in 0..(Height - 1) |-> 0]]
    /\ grid = [c \in Columns |-> [r \in 0..(GridRows - 1) |-> 0]]
    /\ assigned = [c \in 0..(Width - 1) |-> [r \in 0..(Height - 1) |-> None]]

\* BaseConstraintBuilder::new(max_degree), in either build profile
InitBuilder ==
    /\ FreshRegion
    /\ debug_assertions \in BOOLEAN
    /\ max_degree \in MaxDegrees
    /\ constraints = <<>>
    /\ condition = None
    /\ frames = <<>>
    /\ panicked = FALSE
    /\ ret = [op |-> "new", arg |-> <<>>, ok |-> TRUE, val |-> <<>>,
              rejected |-> None]

\* configuration code: constraints pushed inside and outside condition scopes
NextBuilder ==
    \/ RequireZero
    \/ RequireEqual
    \/ RequireBoolean
    \/ RequireTrue
    \/ RequireInSet
    \/ RequireEqualWord
    \/ RequireZeroWord
    \/ AddConstraints
    \/ ConditionCall
    \/ ConditionReturn

SpecBuilder == InitBuilder /\ [][NextBuilder]_vars

\* configuration code that also reads the accumulated constraints with gate
NextGate ==
    \/ RequireZero
    \/ RequireBoolean
    \/ ConditionCall
    \/ ConditionReturn
    \/ Gate

SpecGate == InitBuilder /\ [][NextGate]_vars

----------------------------------------------------------------------------
(* The field F and the codecs over it                                       *)

\* the modulus of F: a prime below 256^WordBytes, as the program's Fr has a
\* modulus below 2^256, small enough for products to stay in machine range
FieldModulus == 40009

FAdd(a, b) == (a + b) % FieldModulus
FMul(a, b) == (a * b) % FieldModulus
\* F::from(v as u64)
FromU64(v) == v % FieldModulus

RECURSIVE Pow(_, _)
Pow(b, n) == IF n = 0 THEN 1 ELSE b * Pow(b, n - 1)

RECURSIVE Reverse(_)
Reverse(seq) ==
    IF seq = <<>> THEN <<>> ELSE Append(Reverse(Tail(seq)), Head(seq))

RECURSIVE FoldRlc(_, _, _)
\* values.fold(init, |acc, value| acc * randomness + value)
FoldRlc(acc, values, randomness) ==
    IF values = <<>> THEN acc
    ELSE FoldRlc(FAdd(FMul(acc, randomness), Head(values)), Tail(values), randomness)

\* rlc::generic that folds from the front, without .rev()
generic_forward(values, randomness) ==
    FoldRlc(Head(values), Tail(values), randomness)

\* rlc::generic: the fold runs over the reversed values, from the last one
generic(values, randomness) ==
    LET rev == Reverse(values)
    IN  FoldRlc(Head(rev), Tail(rev), randomness)

\* rlc::value
rlc_value(values, randomness) ==
    LET fs == [i \in 1..Len(values) |-> FromU64(values[i])]
    IN  IF fs # <<>> THEN generic(fs, randomness) ELSE 0

\* U256::to_little_endian into [u8; WordBytes]
to_little_endian(w) == [i \in 1..WordBytes |-> (w \div Pow(256, i - 1)) % 256]

RECURSIVE LeValue(_)
\* the integer a little-endian byte string denotes
LeValue(bytes) ==
    IF bytes = <<>> THEN 0 ELSE Head(bytes) + 256 * LeValue(Tail(bytes))

\* PrimeField::from_repr: none unless the bytes are a canonical encoding
from_repr(bytes) ==
    IF LeValue(bytes) < FieldModulus THEN Some(LeValue(bytes)) ELSE None

\* PrimeField::to_repr: the canonical little-endian bytes of an element
to_repr(f) == [i \in 1..WordBytes |-> (f \div Pow(256, i - 1)) % 256]

\* a to_scalar that reduces modulo the field instead of refusing
to_scalar_wrapping(w) == Some(LeValue(to_little_endian(w)) % FieldModulus)

\* impl ToScalar<F> for U256
to_scalar(w) == from_repr(to_little_endian(w))

\* byte values given to rlc::value
RlcBytes == {0, 1, 2, 3, 255}
\* challenge values
Challenges == {0, 1, 2, FieldModulus - 1}

RECURSIVE SeqsOfLen(_, _)
SeqsOfLen(S, n) ==
    IF n = 0 THEN {<<>>}
    ELSE {<<a>> \o t : a \in S, t \in SeqsOfLen(S, n - 1)}

SeqsUpTo(S, n) == UNION {SeqsOfLen(S, k) : k \in 0..n}

\* bytes the sampled Words are made of: around those of FieldModulus (73, 156)
WordByteVals == {0, 1, 72, 73, 74, 155, 156, 157, 255}
\* the sampled Words, below, at and above the modulus
Words == {LeValue(b) : b \in SeqsOfLen(WordByteVals, WordBytes)}

\* a codec function is pure: each behaviour applies one to one input
Returned(op, arg, val) ==
    /\ ret.op = "new"
    /\ ret' = [op |-> op, arg |-> arg, ok |-> TRUE, val |-> val, rejected |-> None]
    /\ UNCHANGED <<debug_assertions, max_degree, constraints, condition, frames,
                   panicked>>
    /\ UNCHANGED regionVars

RECURSIVE FromBytesValueLoop(_, _, _)
\* for byte in bytes { value += F::from(byte) * multiplier; multiplier *= 256 }
FromBytesValueLoop(value, multiplier, bytes) ==
    IF bytes = <<>> THEN value
    ELSE FromBytesValueLoop(FAdd(value, FMul(FromU64(Head(bytes)), multiplier)),
                            FMul(multiplier, FromU64(256)), Tail(bytes))

\* from_bytes::value that reads the bytes most significant first
from_bytes_value_big_endian(bytes) == FromBytesValueLoop(0, 1, Reverse(bytes))

\* from_bytes::value, where its debug_assert! passes
from_bytes_value(bytes) == FromBytesValueLoop(0, 1, bytes)

RECURSIVE FromBytesExprLoop(_, _, _)
\* for byte in bytes { value = value + byte.expr() * multiplier; ... }
FromBytesExprLoop(value, multiplier, bytes) ==
    IF bytes = <<>> THEN value
    ELSE FromBytesExprLoop(Sum(value, Scaled(Constant(Head(bytes)), multiplier)),
                           FMul(multiplier, FromU64(256)), Tail(bytes))

\* from_bytes::expr over byte-valued constant expressions
from_bytes_expr(bytes) == FromBytesExprLoop(Constant(0), 1, bytes)

\* debug_assert!(bytes.len() <= 32): TRUE when it passes
few_enough_bytes(bytes) == debug_assertions => Len(bytes) <= WordBytes

\* byte values given to from_bytes: around the bytes of FieldModulus
DecodedBytes == {0, 1, 73, 156, 255}

\* a from_bytes call: it panics on too many bytes where the assertion is on
Decoded(op, bytes, val) ==
    /\ ret.op = "new"
    /\ panicked' = ~few_enough_bytes(bytes)
    /\ ret' = [op |-> op, arg |-> <<bytes>>, ok |-> few_enough_bytes(bytes),
               val |-> IF few_enough_bytes(bytes) THEN <<val>> ELSE <<>>,
               rejected |-> None]
    /\ UNCHANGED <<debug_assertions, max_degree, constraints, condition, frames>>
    /\ UNCHANGED regionVars

FromBytesValue ==
    \E bytes \in SeqsUpTo(DecodedBytes, WordBytes + 1) :
        Decoded("from_bytes::value", bytes, from_bytes_value(bytes))

FromBytesExpr ==
    \E bytes \in SeqsUpTo(DecodedBytes, WordBytes + 1) :
        Decoded("from_bytes::expr", bytes, from_bytes_expr(bytes))

RlcValue ==
    \E values \in SeqsUpTo(RlcBytes, MaxLen), r \in Challenges :
        Returned("rlc::value", <<values, r>>, <<rlc_value(values, r)>>)

ToScalar ==
    \E w \in Words : Returned("to_scalar", <<w>>, to_scalar(w))

NextCodec ==
    \/ RlcValue
    \/ ToScalar
    \/ FromBytesValue
    \/ FromBytesExpr

SpecCodec == InitBuilder /\ [][NextCodec]_vars

----------------------------------------------------------------------------
(* CachedRegion                                                             *)

\* Value::known(v) and Value::unknown()
Known(v) == <<"known", v>>
Unknown == <<"unknown">>
\* what the producer `to` of an assign_advice call yields
Producers == {Known(v) : v \in Values} \cup {Unknown}

\* the cache has a cell for (column, offset)
InWindow(column, offset) ==
    /\ column - width_start \in 0..(Width - 1)
    /\ offset - height_start \in 0..(Height - 1)

\* Region::assign_advice when it accepts: the grid keeps a known value
region_assign(g, column, offset, to) ==
    IF to = Unknown THEN g ELSE [g EXCEPT ![column][offset] = to[2]]

\* the caching step of assign_advice without the res.is_ok() test
cache_regardless(adv, column, offset, res_ok, to) ==
    IF to # Unknown
    THEN [adv EXCEPT ![column - width_start][offset - height_start] = to[2]]
    ELSE adv

\* the caching step of assign_advice: if res.is_ok() { to().map(|f| ...) }
cache_value(adv, column, offset, res_ok, to) ==
    IF res_ok /\ to # Unknown
    THEN [adv EXCEPT ![column - width_start][offset - height_start] = to[2]]
    ELSE adv

\* assign_advice on the current window: the grid answers first (res_ok is its
\* answer); indexing the cache outside the window panics, after the grid has
\* been written. calls is the number of times assign_advice itself calls the
\* producer
assign_advice(column, offset, to, res_ok) ==
    LET indexes == res_ok /\ to # Unknown
        panics == indexes /\ ~InWindow(column, offset)
    IN  [grid |-> IF res_ok THEN region_assign(grid, column, offset, to)
                  ELSE grid,
         advice |-> IF panics THEN advice
                    ELSE cache_value(advice, column, offset, res_ok, to),
         cached |-> indexes /\ ~panics,
         calls |-> IF res_ok THEN 1 ELSE 0,
         panics |-> panics,
         ok |-> res_ok /\ ~panics]

AssignAdviceCall(column, offset, to, res_ok) ==
    LET res == assign_advice(column, offset, to, res_ok)
    IN  /\ ~panicked
        /\ grid' = res.grid
        /\ advice' = res.advice
        /\ assigned' = IF res.cached
                       THEN [assigned EXCEPT
                               ![column - width_start][offset - height_start]
                                   = Some(to[2])]
                       ELSE assigned
        /\ panicked' = res.panics
        /\ ret' = [op |-> "assign_advice", arg |-> <<>>, ok |-> res.ok,
                   val |-> <<res.calls>>, rejected |-> None]
        /\ UNCHANGED <<debug_assertions, max_degree, constraints, condition,
                       frames>>

AssignAdvice ==
    \E column \in Columns, offset \in 0..(GridRows - 1), to \in Producers,
       res_ok \in BOOLEAN :
        AssignAdviceCall(column, offset, to, res_ok)

\* get_advice's index computation panics: row_index - height_start overflows
\* (checked when debug assertions are on), or the index is outside the cache
get_advice_panics(row_index, column_index, rotation) ==
    \/ debug_assertions /\ row_index < height_start
    \/ column_index - width_start \notin 0..(Width - 1)
    \/ (row_index - height_start) + rotation \notin 0..(Height - 1)

\* get_advice that ignores the rotation
get_advice_unrotated(row_index, column_index, rotation) ==
    LET r == row_index - height_start
    IN  advice[column_index - width_start]
              [IF r \in 0..(Height - 1) THEN r ELSE r + rotation]

\* get_advice, where it does not panic
get_advice(row_index, column_index, rotation) ==
    advice[column_index - width_start][(row_index - height_start) + rotation]

Rotations == {-1, 0, 1}

GetAdviceCall(row_index, column_index, rotation) ==
    LET panics == get_advice_panics(row_index, column_index, rotation)
    IN  /\ ~panicked
        /\ panicked' = panics
        /\ ret' = [op |-> "get_advice", arg |-> <<rotation>>,
                   ok |-> ~panics,
                   val |-> IF panics THEN <<>>
                           ELSE <<get_advice(row_index, column_index, rotation)>>,
                   rejected |-> None]
        /\ UNCHANGED <<debug_assertions, max_degree, constraints, condition,
                       frames>>
        /\ UNCHANGED regionVars

GetAdvice ==
    \E row_index \in 0..(GridRows - 1), column_index \in Columns,
       rotation \in Rotations :
        GetAdviceCall(row_index, column_index, rotation)

\* for offset in offset_begin..offset_end: assign v in column
RowWrites(column, v, offset_begin, offset_end) ==
    [j \in 1..(offset_end - offset_begin) |-> <<column, offset_begin + j - 1, v>>]

RECURSIVE ReplicateWrites_row1(_, _, _)
\* a replication that takes its template from cache row 1
ReplicateWrites_row1(i, offset_begin, offset_end) ==
    IF i >= Width THEN <<>>
    ELSE (IF advice[i][1] = 0 THEN <<>>
          ELSE RowWrites(width_start + i, advice[i][1], offset_begin, offset_end))
         \o ReplicateWrites_row1(i + 1, offset_begin, offset_end)

RECURSIVE ReplicateWrites(_, _, _)
\* the grid assignments of replicate_assignment_for_range, in order, from
\* cache column i on: the columns whose value in cache row 0 is zero are skipped
ReplicateWrites(i, offset_begin, offset_end) ==
    IF i >= Width THEN <<>>
    ELSE (IF advice[i][0] = 0 THEN <<>>
          ELSE RowWrites(width_start + i, advice[i][0], offset_begin, offset_end))
         \o ReplicateWrites(i + 1, offset_begin, offset_end)

RECURSIVE ApplyWrites(_, _)
ApplyWrites(g, writes) ==
    IF writes = <<>> THEN g
    ELSE ApplyWrites(region_assign(g, Head(writes)[1], Head(writes)[2],
                                   Known(Head(writes)[3])),
                     Tail(writes))

\* a replication that also stores the template in the cache rows of the range
replicate_write_through(offset_begin, offset_end, k) ==
    LET writes == ReplicateWrites(0, offset_begin, offset_end)
    IN  [grid |-> ApplyWrites(grid, SubSeq(writes, 1, k)),
         advice |-> [c \in 0..(Width - 1) |-> [r \in 0..(Height - 1) |->
                       IF /\ r + height_start >= offset_begin
                          /\ r + height_start < offset_end
                       THEN advice[c][0] ELSE advice[c][r]]],
         made |-> k,
         ok |-> k = Len(writes)]

\* replicate_assignment_for_range on the current window: the grid accepts
\* the first k assignments; a rejection (k below their number) returns the
\* error at once. made is the number of grid assignments that went through
replicate_assignment_for_range(offset_begin, offset_end, k) ==
    LET writes == ReplicateWrites(0, offset_begin, offset_end)
    IN  [grid |-> ApplyWrites(grid, SubSeq(writes, 1, k)),
         advice |-> advice,
         made |-> k,
         ok |-> k = Len(writes)]

ReplicateCall(offset_begin, offset_end, k) ==
    LET res == replicate_assignment_for_range(offset_begin, offset_end, k)
    IN  /\ ~panicked
        /\ k \in 0..Len(ReplicateWrites(0, offset_begin, offset_end))
        /\ grid' = res.grid
        /\ advice' = res.advice
        /\ ret' = [op |-> "replicate_assignment_for_range",
                   arg |-> <<>>, ok |-> res.ok, val |-> <<res.made>>,
                   rejected |-> None]
        /\ UNCHANGED <<debug_assertions, max_degree, constraints,
                       condition, frames, panicked, assigned>>

\* the most grid assignments one replication can make
MaxWrites == Width * GridRows

\* ranges from the window's first row down to the end of the grid
ReplicateAssignmentForRange ==
    \E offset_begin \in height_start..GridRows :
      \E offset_end \in offset_begin..GridRows :
        \E k \in 0..MaxWrites :
            ReplicateCall(offset_begin, offset_end, k)

NextRegion ==
    \/ AssignAdvice
    \/ GetAdvice
    \/ ReplicateAssignmentForRange

\* a fresh window; the builder plays no part
InitRegion == InitBuilder /\ max_degree = 0

SpecRegion == InitRegion /\ [][NextRegion]_vars

----------------------------------------------------------------------------
(* Claims about BaseConstraintBuilder                                       *)

PushOps == {"require_zero", "require_equal", "require_boolean", "require_true",
            "require_in_set", "require_equal_word", "require_zero_word",
            "add_constraints"}

\* the constraints a step has appended
Appended == SubSeq(constraints', Len(constraints) + 1, Len(constraints'))

WithinDegree == \A i \in DOMAIN constraints : Degree(constraints[i][2]) <= max_degree

\* C1 as stated: with max_degree = d > 0, every stored constraint has
\* degree <= d, because a push of higher degree aborts without appending.
C1_Original == max_degree > 0 => WithinDegree

\* C1, amended: in a build with debug assertions and max_degree = d > 0, a
\* push is rejected (panics, nothing appended for it) exactly when its scaled
\* expression has degree > d, so every stored constraint has degree <= d; with
\* max_degree = 0, or in a build without debug assertions, no push is rejected.
C1_DegreeEnforced ==
    /\ []((debug_assertions /\ max_degree > 0) => WithinDegree)
    /\ [][ret'.op \in PushOps =>
            /\ Len(constraints') = Len(constraints) + Len(ret'.val)
            /\ SubSeq(constraints', 1, Len(constraints)) = constraints
            /\ panicked' = ~ret'.ok
            /\ ret'.ok <=> ret'.rejected = None
            /\ ret'.rejected # None =>
                  /\ debug_assertions
                  /\ max_degree > 0
                  /\ Degree(ret'.rejected[2]) > max_degree]_vars

\* a push of degree 5 was rejected by a builder with max_degree 4 that had
\* accepted constraints before
C1_Witness ==
    /\ debug_assertions
    /\ max_degree = 4
    /\ ret.op \in PushOps
    /\ ret.rejected # None
    /\ panicked
    /\ Len(constraints) > 0

\* the step is a push that stores each accepted (name, e) scaled by the
\* condition of every condition() call whose body is running, unscaled if none
C2Scoped ==
    ret'.op \in PushOps =>
        /\ Len(Appended) = Len(ret'.val)
        /\ \A i \in DOMAIN ret'.val :
              /\ Appended[i][1] = ret'.val[i][1]
              /\ frames = <<>> => Appended[i][2] = ret'.val[i][2]
              /\ \A k \in DOMAIN frames :
                    Appended[i][2] = Product(frames[k], ret'.val[i][2])

\* the running body, if any, has made no condition() call of its own so far
NoNestedCall ==
    \/ frames = <<>> /\ condition = None
    \/ Len(frames) = 1 /\ condition = Some(frames[1])

\* C2 as stated: every constraint pushed while body runs is stored as
\* (name, cond * e), every other one as (name, e).
C2_Original == [][C2Scoped]_vars

\* C2, amended: the scoping holds in a build with debug assertions, and in
\* any build as long as the running body has made no condition() call itself.
C2_ConditionScoping == [][(debug_assertions \/ NoNestedCall) => C2Scoped]_vars

\* a constraint was stored scaled inside a body, after an unscaled one
C2_Witness ==
    /\ frames # <<>>
    /\ ret.op = "require_equal"
    /\ ret.ok
    /\ Len(constraints) = 2
    /\ constraints[1] = <<"zero", x>>
    /\ constraints[2] = <<"eq", Product(frames[1], Sub(x, y))>>

\* while a body runs, the active condition is the one of its condition() call
OuterConditionKept ==
    /\ Len(frames) <= 1
    /\ frames # <<>> => condition = Some(frames[1])

\* C3 as stated: a condition() call made while a condition is active aborts,
\* so the outer condition is never replaced while the outer body runs.
C3_Original == OuterConditionKept

\* C3, amended: in a build with debug assertions a condition() call made
\* while a condition is active aborts and changes nothing, so the outer
\* condition stays active for the whole outer body; in a build without them
\* the call goes through and replaces the active condition.
C3_NoNesting ==
    /\ [](debug_assertions => OuterConditionKept)
    /\ [][(ret'.op = "condition" /\ condition # None) =>
            IF debug_assertions
            THEN panicked' /\ ~ret'.ok
                 /\ UNCHANGED <<constraints, condition, frames>>
            ELSE ~panicked' /\ condition' = Some(ret'.arg[1])]_vars

\* a nested condition() call has aborted construction
C3_Witness ==
    /\ debug_assertions
    /\ panicked
    /\ ret.op = "condition"
    /\ ~ret.ok
    /\ frames # <<>>
    /\ condition = Some(frames[1])

Flag == <<"flag", Product(x, Sub(One, x))>>

\* the scenario's builder: max_degree 4, holding what require_boolean("flag", x)
\* pushed with no condition active
FlagOnly == max_degree = 4 /\ constraints = <<Flag>>

\* C9 as stated: the pushed x*(1-x) has degree 3; gate with a selector of
\* degree 1 gives degree 4 and is accepted, with one of degree 2 it is rejected.
C9_Original ==
    FlagOnly =>
        /\ Degree(Flag[2]) = 3
        /\ (ret.op = "gate" /\ Degree(ret.arg[1]) = 1) =>
              ret.ok /\ Degree(ret.val[1][2]) = 4
        /\ (ret.op = "gate" /\ Degree(ret.arg[1]) = 2) => ~ret.ok

\* C9, amended: require_boolean("flag", x) with x of degree 1 pushes x*(1-x)
\* of degree 2; gate with a selector of degree 1 or 2 gives degree 3 or 4 and
\* is accepted; with a selector of degree 3 it gives degree 5 and is rejected
\* in a build with debug assertions (and returned in a build without).
C9_GateScenario ==
    /\ (ret.op = "require_boolean" /\ ret.ok /\ condition = None /\ ret.arg[2] = x)
          => /\ constraints[Len(constraints)] = Flag
             /\ Degree(Flag[2]) = 2
    /\ (FlagOnly /\ ret.op = "gate") =>
          LET s == ret.arg[1]
          IN  /\ Degree(s) <= 2 =>
                    /\ ret.ok
                    /\ ret.val = <<<<"flag", Product(s, Flag[2])>>>>
                    /\ Degree(ret.val[1][2]) = Degree(s) + 2
              /\ Degree(s) = 3 => (ret.ok <=> ~debug_assertions)

\* gate with a selector of degree 2 has returned the flag constraint at degree 4
C9_Witness ==
    /\ debug_assertions
    /\ FlagOnly
    /\ ret.op = "gate"
    /\ Degree(ret.arg[1]) = 2
    /\ ret.ok
    /\ Degree(ret.val[1][2]) = 4

\* C10: whenever gate(selector) returns, its result has exactly one entry
\* (name, selector * e) per accumulated (name, e), in order, and the call
\* leaves constraints, max_degree and the active condition as they were.
C10_GateProjection ==
    /\ []((ret.op = "gate" /\ ret.ok) =>
            /\ Len(ret.val) = Len(constraints)
            /\ \A i \in DOMAIN constraints :
                  ret.val[i] = <<constraints[i][1],
                                 Product(ret.arg[1], constraints[i][2])>>)
    /\ [][ret'.op = "gate" =>
            UNCHANGED <<constraints, max_degree, condition, frames>>]_vars

\* gate has returned two constraints, one of them over the degree bound, from
\* inside a condition body
C10_Witness ==
    /\ ret.op = "gate"
    /\ ret.ok
    /\ Len(ret.val) = 2
    /\ max_degree = 4
    /\ Degree(ret.val[2][2]) > 4
    /\ condition # None

----------------------------------------------------------------------------
(* Claims about the codecs                                                  *)

RECURSIVE HornerFromFirst(_, _, _)
\* acc <- acc * r + v_i, taken from the first value to the last
HornerFromFirst(acc, values, r) ==
    IF values = <<>> THEN acc
    ELSE HornerFromFirst((acc * r + Head(values)) % FieldModulus, Tail(values), r)

RECURSIVE PolySum(_, _, _)
\* v_i * r^(i-1) + ... over the values from index i on, in F
PolySum(values, r, rpow) ==
    IF values = <<>> THEN 0
    ELSE ((Head(values) % FieldModulus) * rpow
            + PolySum(Tail(values), r, (rpow * r) % FieldModulus)) % FieldModulus

\* C4 as stated: rlc::value is 0 for the empty sequence and otherwise the
\* Horner fold from v0 (most significant) to v(n-1); [1,2,3] with r = 2 is 11.
C4_Original ==
    ret.op = "rlc::value" =>
        LET values == ret.arg[1]
            r == ret.arg[2]
        IN  /\ values = <<>> => ret.val[1] = 0
            /\ values # <<>> =>
                  ret.val[1] = HornerFromFirst(Head(values) % FieldModulus,
                                               Tail(values), r)
            /\ (values = <<1, 2, 3>> /\ r = 2) => ret.val[1] = 11

\* C4, amended: rlc::value is 0 for the empty sequence, v0 for n = 1, and
\* otherwise the Horner fold taken from v(n-1) down to v0, that is
\* v0 + v1*r + ... + v(n-1)*r^(n-1): v0 is the least significant item;
\* [1,2,3] with r = 2 is 17.
C4_RlcLittleEndian ==
    ret.op = "rlc::value" =>
        LET values == ret.arg[1]
            r == ret.arg[2]
        IN  /\ values = <<>> => ret.val[1] = 0
            /\ Len(values) = 1 => ret.val[1] = values[1]
            /\ ret.val[1] = PolySum(values, r, 1)
            /\ (values = <<1, 2, 3>> /\ r = 2) => ret.val[1] = 17

\* rlc::value has returned for [1,2,3] and r = 2
C4_Witness ==
    /\ ret.op = "rlc::value"
    /\ ret.arg = <<<<1, 2, 3>>, 2>>
    /\ ret.val = <<17>>

\* C5: to_scalar(w) is none when w >= the field modulus, and otherwise the
\* element whose canonical little-endian bytes are w's little-endian bytes,
\* so that no other Word yields the same element.
C5_ToScalarExact ==
    ret.op = "to_scalar" =>
        LET w == ret.arg[1]
        IN  /\ w >= FieldModulus => ret.val = None
            /\ w < FieldModulus =>
                  /\ ret.val # None
                  /\ to_repr(ret.val[2]) = to_little_endian(w)
            /\ ret.val # None =>
                  \A w2 \in Words : to_scalar(w2) = ret.val => w2 = w

\* to_scalar has refused a Word above the modulus whose residue is a Word too
C5_Witness ==
    /\ ret.op = "to_scalar"
    /\ ret.arg[1] > FieldModulus
    /\ ret.arg[1] - FieldModulus \in Words
    /\ ret.val = None

----------------------------------------------------------------------------
(* Claims about CachedRegion                                                *)

\* C6: assign_advice asks the grid first; if the grid rejects, the error is
\* returned, the producer is not called for caching and the cache is as it
\* was; if the grid accepts, the producer is called once more and its value
\* is written to cache cell (column - width_start, offset - height_start),
\* every other cache cell unchanged (an unknown value writes nothing, a cell
\* outside the window has no cache cell: indexing panics).
C6_AssignAtomic ==
    \A column \in Columns, offset \in 0..(GridRows - 1), to \in Producers,
       res_ok \in BOOLEAN :
        LET res == assign_advice(column, offset, to, res_ok)
        IN  /\ ~res_ok =>
                  /\ ~res.ok
                  /\ res.calls = 0
                  /\ res.advice = advice
                  /\ res.grid = grid
                  /\ ~res.panics
            /\ res_ok => res.calls = 1
            /\ (res_ok /\ InWindow(column, offset)) =>
                  /\ res.ok
                  /\ \A c \in 0..(Width - 1), r \in 0..(Height - 1) :
                        res.advice[c][r] =
                            IF /\ c = column - width_start
                               /\ r = offset - height_start
                               /\ to # Unknown
                            THEN to[2] ELSE advice[c][r]
            /\ (res_ok /\ ~InWindow(column, offset)) =>
                  /\ res.advice = advice
                  /\ res.panics = (to # Unknown)

\* the grid has rejected an assignment to a window whose cache holds values
C6_Witness ==
    /\ ret.op = "assign_advice"
    /\ ~ret.ok
    /\ ~panicked
    /\ ret.val = <<0>>
    /\ advice[0][0] = 1
    /\ advice[1][1] = 1

\* the read get_advice(row, column, rotation) of a cell of the window that
\* assign_advice has assigned returns the last value assigned to it
ReadsLastAssigned(row_index, column_index, rotation) ==
    LET c == column_index - width_start
        r == row_index + rotation - height_start
    IN  (InWindow(column_index, row_index + rotation) /\ assigned[c][r] # None)
        => /\ ~get_advice_panics(row_index, column_index, rotation)
           /\ get_advice(row_index, column_index, rotation) = assigned[c][r][2]

\* C7 as stated: whenever (column, row + rotation) is inside the window, the
\* read returns the value of the most recent successful assign to that cell.
C7_Original ==
    \A row_index \in 0..(GridRows - 1), column_index \in Columns,
       rotation \in Rotations :
        ReadsLastAssigned(row_index, column_index, rotation)

\* C7, amended: the same for reads with row >= height_start (the window's
\* first row); a read from a row above the window panics in a build with
\* overflow checks even when row + rotation is inside the window.
C7_ReadAfterAssign ==
    \A row_index \in 0..(GridRows - 1), column_index \in Columns,
       rotation \in Rotations :
        /\ row_index >= height_start =>
              ReadsLastAssigned(row_index, column_index, rotation)
        /\ (row_index < height_start /\ debug_assertions) =>
              get_advice_panics(row_index, column_index, rotation)

\* a read with rotation -1 has returned the value assigned to the window's
\* first row, which replaced an earlier one
C7_Witness ==
    /\ ret.op = "get_advice"
    /\ ret.ok
    /\ ret.arg = <<-1>>
    /\ ret.val = <<0>>
    /\ assigned[0][0] = Some(0)
    /\ assigned[1][0] = Some(1)
    /\ assigned[0][1] = Some(1)
    /\ assigned[1][1] = Some(1)
    /\ grid[width_start][height_start] = 0

\* every column of the template row (cache row 0) has been assigned
TemplateAssigned == \A c \in 0..(Width - 1) : assigned[c][0] # None

\* the grid after each row of [offset_begin, offset_end) has been assigned the
\* template row's values, column by column
Reassigned(offset_begin, offset_end) ==
    [col \in Columns |->
        [r \in 0..(GridRows - 1) |->
            IF r >= offset_begin /\ r < offset_end
            THEN assigned[col - width_start][0][2]
            ELSE grid[col][r]]]

\* the grid after a replication that made all its grid assignments
Replicated(offset_begin, offset_end) ==
    ApplyWrites(grid, ReplicateWrites(0, offset_begin, offset_end))

\* the cells of the range in the columns whose template value is zero hold zero
ZeroColumnsClear(offset_begin, offset_end) ==
    \A col \in Columns, r \in 0..(GridRows - 1) :
        (/\ r >= offset_begin
         /\ r < offset_end
         /\ advice[col - width_start][0] = 0) => grid[col][r] = 0

\* C8 as stated: for a fully assigned template row and any range, the
\* replication leaves the grid as re-assigning every row of the range to the
\* template row's values would.
C8_Original ==
    \A offset_begin \in height_start..GridRows :
        \A offset_end \in offset_begin..GridRows :
            TemplateAssigned =>
                Replicated(offset_begin, offset_end)
                    = Reassigned(offset_begin, offset_end)

\* C8, amended: the two grids are identical provided the cells of the range
\* in the columns whose template value is zero still hold zero; in general
\* the replication leaves those cells as they were and sets the others.
C8_ReplicationEquivalence ==
    \A offset_begin \in height_start..GridRows :
        \A offset_end \in offset_begin..GridRows :
            TemplateAssigned =>
                /\ ZeroColumnsClear(offset_begin, offset_end)
                      => Replicated(offset_begin, offset_end)
                            = Reassigned(offset_begin, offset_end)
                /\ \A col \in Columns, r \in 0..(GridRows - 1) :
                      Replicated(offset_begin, offset_end)[col][r] =
                          IF /\ r >= offset_begin
                             /\ r < offset_end
                             /\ assigned[col - width_start][0] # Some(0)
                          THEN assigned[col - width_start][0][2]
                          ELSE grid[col][r]

\* a template row with a zero and a non-zero column has been replicated into
\* the row below the window
C8_Witness ==
    /\ ret.op = "replicate_assignment_for_range"
    /\ ret.ok
    /\ assigned[0][0] = Some(1)
    /\ assigned[1][0] = Some(0)
    /\ grid[width_start][GridRows - 1] = 1
    /\ grid[width_start + 1][GridRows - 1] = 0

----------------------------------------------------------------------------
(* Claims about the values of the pushed constraints                        *)

\* the cells the expressions query
Leaves == {x, y, q, sel}
\* field elements given to the queried cells
CellValues == {0, 1, 2}
\* assignments of the queried cells
Assignments == [Leaves -> CellValues]

RECURSIVE Eval(_, _)
\* the value of an Expression<F> in F under an assignment of its cells
Eval(e, a) ==
    CASE e[1] = "Constant" -> e[2] % FieldModulus
      [] e[1] = "Advice" -> a[e]
      [] e[1] = "Fixed" -> a[e]
      [] e[1] = "Negated" -> (FieldModulus - Eval(e[2], a)) % FieldModulus
      [] e[1] = "Sum" -> FAdd(Eval(e[2], a), Eval(e[3], a))
      [] e[1] = "Product" -> FMul(Eval(e[2], a), Eval(e[3], a))
      [] e[1] = "Scaled" -> FMul(Eval(e[2], a), e[3])

\* e as add_constraint stores it under the active condition
UnderCondition(e) == IF condition = None THEN e ELSE Product(condition[2], e)

WordOps == {"require_equal_word", "require_zero_word"}

\* the words the last require_equal_word / require_zero_word call compared
WordLhs == ret.arg[2]
WordRhs == IF ret.op = "require_zero_word" THEN WordZero ELSE ret.arg[3]

\* the two limb constraints of the last word call, as passed to add_constraint
LimbPair ==
    <<<<ret.arg[1], Sub(WordLhs.lo, WordRhs.lo)>>,
      <<ret.arg[1], Sub(WordLhs.hi, WordRhs.hi)>>>>

\* a word call appends the lo constraint, then the hi constraint, each scaled
\* and validated on its own; a rejection aborts the call where it happens
LimbWise ==
    ret.op \in WordOps =>
        LET n == Len(constraints)
            k == Len(ret.val)
        IN  /\ ret.val = SubSeq(LimbPair, 1, k)
            /\ k <= n
            /\ \A i \in 1..k :
                  constraints[n - k + i] =
                      <<LimbPair[i][1], UnderCondition(LimbPair[i][2])>>
            /\ ret.ok <=> k = 2
            /\ ~ret.ok =>
                  /\ ret.rejected = Some(UnderCondition(LimbPair[k + 1][2]))
                  /\ ~validate_degree(Degree(ret.rejected[2]))
            /\ \A i \in 1..k : validate_degree(Degree(constraints[n - k + i][2]))

\* the stored pair of the last word call is zero under assignment a
PairZero(a) ==
    /\ Eval(constraints[Len(constraints) - 1][2], a) = 0
    /\ Eval(constraints[Len(constraints)][2], a) = 0

\* the compared words have equal limbs under assignment a
LimbsEqual(a) ==
    /\ Eval(WordLhs.lo, a) = Eval(WordRhs.lo, a)
    /\ Eval(WordLhs.hi, a) = Eval(WordRhs.hi, a)

\* C11 as stated: a word call appends (name, a.lo - b.lo) then
\* (name, a.hi - b.hi), each scaled by the active condition and validated on
\* its own, and the pushed pair is all-zero exactly when the limbs are equal.
C11_Original ==
    /\ LimbWise
    /\ (ret.op \in WordOps /\ ret.ok) =>
          \A a \in Assignments : PairZero(a) <=> LimbsEqual(a)

\* C11, amended: the same two constraints are appended; the pushed pair is
\* all-zero exactly when the limbs are equal or the active condition, by
\* which both are scaled, is zero (so with no condition active, exactly when
\* the limbs are equal).
C11_LimbWise ==
    /\ LimbWise
    /\ (ret.op \in WordOps /\ ret.ok) =>
          \A a \in Assignments :
              PairZero(a) <=>
                  \/ LimbsEqual(a)
                  \/ condition # None /\ Eval(condition[2], a) = 0

\* require_equal_word has stored its lo constraint and was rejected on its hi
\* constraint, inside a condition body
C11_Witness ==
    /\ ret.op = "require_equal_word"
    /\ ~ret.ok
    /\ Len(ret.val) = 1
    /\ condition # None
    /\ constraints[Len(constraints)] =
          <<"word", Product(condition[2], Sub(x, y))>>

RECURSIVE DifferenceProduct(_, _, _)
\* the product in F of (value - s) over the items s of set, under assignment a
DifferenceProduct(value, set, a) ==
    IF set = <<>> THEN 1
    ELSE ((Eval(value, a) - Eval(Head(set), a) + FieldModulus)
            * DifferenceProduct(value, Tail(set), a)) % FieldModulus

\* value is one of the items of set under assignment a
Member(value, set, a) ==
    \E i \in DOMAIN set : Eval(value, a) = Eval(set[i], a)

\* C12: with no condition active, require_in_set(name, v, S) pushes the
\* product over s in S of (v - s): for nonempty S it is zero for every v in S
\* and nonzero for every v not in S; for empty S it is the constant 1, which
\* is stored (never rejected) and is nonzero under every assignment.
C12_SetMembership ==
    (ret.op = "require_in_set" /\ condition = None) =>
        LET value == ret.arg[2]
            set == ret.arg[3]
            pushed == IF ret.ok THEN constraints[Len(constraints)][2]
                      ELSE ret.rejected[2]
        IN  /\ ret.ok => constraints[Len(constraints)][1] = ret.arg[1]
            /\ \A a \in Assignments :
                  /\ Eval(pushed, a) = DifferenceProduct(value, set, a)
                  /\ set # <<>> =>
                        (Eval(pushed, a) = 0 <=> Member(value, set, a))
            /\ set = <<>> =>
                  /\ pushed = One
                  /\ ret.ok
                  /\ \A a \in Assignments : Eval(pushed, a) # 0

\* the empty set's constant 1 has been stored by a builder that validates
\* degrees, with no condition active, after a membership in a non-empty set
C12_Witness ==
    /\ debug_assertions
    /\ max_degree = 4
    /\ condition = None
    /\ ret.op = "require_in_set"
    /\ ret.arg[3] = <<>>
    /\ ret.ok
    /\ Len(constraints) = 2
    /\ constraints[1] =
          <<"set", Product(Product(One, Sub(x, y)), Sub(x, Constant(2)))>>
    /\ constraints[2] = <<"set", One>>

\* no other sequence of the same length decodes to the value bytes decodes to
DecodesAlone(bytes) ==
    \A other \in SeqsOfLen(DecodedBytes, Len(bytes)) :
        other # bytes => from_bytes_value(other) # from_bytes_value(bytes)

\* a from_bytes call on at most WordBytes bytes returns the sum of
\* byte_i * 256^i in F, as a value and as an expression
PositionalSum ==
    /\ (ret.op = "from_bytes::value" /\ Len(ret.arg[1]) <= WordBytes) =>
          /\ ret.ok
          /\ ret.val = <<LeValue(ret.arg[1]) % FieldModulus>>
    /\ (ret.op = "from_bytes::expr" /\ Len(ret.arg[1]) <= WordBytes) =>
          /\ ret.ok
          /\ \A a \in Assignments :
                Eval(ret.val[1], a) = from_bytes_value(ret.arg[1])

\* C13 as stated: for at most 32 bytes from_bytes::value and from_bytes::expr
\* give the sum of byte_i * 256^i, and for each length n <= 32 two different
\* n-byte sequences never decode to the same value.
C13_Original ==
    /\ PositionalSum
    /\ (ret.op = "from_bytes::value" /\ Len(ret.arg[1]) <= WordBytes) =>
          DecodesAlone(ret.arg[1])

\* C13, amended: the sum is taken in F, and the map is injective for each
\* length n with 256^n at most the modulus (n <= 31 in the program); for
\* full-width sequences (n = 32) two sequences decode to the same value
\* exactly when the integers they denote differ by a multiple of the modulus.
\* More bytes than that are rejected only in a build with debug assertions.
C13_PositionalDecomposition ==
    /\ PositionalSum
    /\ (ret.op = "from_bytes::value" /\ Len(ret.arg[1]) <= WordBytes) =>
          /\ Pow(256, Len(ret.arg[1])) <= FieldModulus =>
                DecodesAlone(ret.arg[1])
          /\ \A other \in SeqsOfLen(DecodedBytes, Len(ret.arg[1])) :
                from_bytes_value(other) = ret.val[1]
                    <=> (LeValue(other) - LeValue(ret.arg[1])) % FieldModulus = 0
    /\ (ret.op \in {"from_bytes::value", "from_bytes::expr"}
            /\ Len(ret.arg[1]) > WordBytes) =>
          (ret.ok <=> ~debug_assertions)

\* from_bytes::value has decoded the full-width bytes of the modulus to zero
C13_Witness ==
    /\ ret.op = "from_bytes::value"
    /\ ret.ok
    /\ Len(ret.arg[1]) = WordBytes
    /\ LeValue(ret.arg[1]) = FieldModulus
    /\ ret.val = <<0>>

----------------------------------------------------------------------------
(* Claims about the frame of replication                                    *)

\* the cache columns before column c whose template value is not zero
CopiedBefore(c) == Cardinality({d \in 0..(c - 1) : advice[d][0] # 0})

\* the place of grid cell (col, row) among the grid assignments of a
\* replication over [offset_begin, offset_end), made column after column
Rank(col, row, offset_begin, offset_end) ==
    CopiedBefore(col - width_start) * (offset_end - offset_begin)
        + (row - offset_begin) + 1

\* what get_advice finds in a cache cell: the last value assign_advice
\* produced for it, the zero default if there was none
Cached(c, r) == IF assigned[c][r] = None THEN 0 ELSE assigned[c][r][2]

\* a replication over [offset_begin, offset_end) whose first k grid assignments
\* are accepted writes exactly those grid cells, from cache row 0, touches no
\* cache cell, and returns an error unless all its assignments were accepted
FrameOf(offset_begin, offset_end, k) ==
    LET res == replicate_assignment_for_range(offset_begin, offset_end, k)
        total == CopiedBefore(Width) * (offset_end - offset_begin)
    IN  k <= total =>
            /\ res.ok <=> k = total
            /\ res.made = k
            /\ res.advice = advice
            /\ \A c \in 0..(Width - 1), r \in 0..(Height - 1) :
                  res.advice[c][r] = Cached(c, r)
            /\ \A col \in Columns, row \in 0..(GridRows - 1) :
                  res.grid[col][row] =
                      IF /\ advice[col - width_start][0] # 0
                         /\ row >= offset_begin
                         /\ row < offset_end
                         /\ Rank(col, row, offset_begin, offset_end) <= k
                      THEN advice[col - width_start][0]
                      ELSE grid[col][row]

\* C14: replicate_assignment_for_range writes only to the grid, from cache
\* row 0; it leaves every cache cell unchanged, so a read of a row of the
\* range returns what the cache held before (zero if never assigned), and a
\* grid assignment that fails midway returns the error with the earlier grid
\* writes applied.
C14_ReplicationFrame ==
    /\ [](\A offset_begin \in height_start..GridRows :
            \A offset_end \in offset_begin..GridRows :
                \A k \in 0..MaxWrites : FrameOf(offset_begin, offset_end, k))
    /\ [][ret'.op = "replicate_assignment_for_range" =>
            /\ UNCHANGED <<advice, assigned, panicked>>
            /\ \A row_index \in height_start..(height_start + Height - 1),
                  column_index \in Columns :
                    get_advice(row_index, column_index, 0)'
                        = get_advice(row_index, column_index, 0)]_vars

\* a replication has failed after one grid assignment, which wrote the
\* template value to a window cell that was never assigned: the cache still
\* holds zero there
C14_Witness ==
    /\ ret.op = "replicate_assignment_for_range"
    /\ ~ret.ok
    /\ ret.val = <<1>>
    /\ advice[0][0] = 1
    /\ advice[1][0] = 1
    /\ assigned[0][1] = None
    /\ advice[0][1] = 0
    /\ grid[width_start][height_start + 1] = 1

=============================================================================
